---- MODULE Spec2Model ----
(***************************************************************************)
(* pyson3: a JSON text decoder.  lex() scans the source text into a list   *)
(* of Token(type, start, end) spans; Parser.parse() walks the tokens by    *)
(* recursive descent and builds the value tree.  loads(json) is            *)
(* Parser().parse(json).                                                   *)
(*                                                                         *)
(* Text is a sequence of one-character strings.  Offsets (i, idx, start,   *)
(* end, self.i) are the 0-based offsets of the Python code; At() and       *)
(* PySlice() translate them to the 1-based sequences of TLA+.              *)
(***************************************************************************)
EXTENDS Integers, Sequences, FiniteSets, TLC

VARIABLES
    json,    \* the text handed to loads (lex: json, Parser.json)
    doc,     \* the document json is the text of, NoDoc for any other text
    pc,      \* where control is: "lex", "scan" (the string scan of lex),
             \* "parse", "object", "array", "value", "comma" (the comma test
             \* of parse_value), "done" (loads returned), "error" (it raised)
    i,       \* lex: i
    idx,     \* lex: idx
    tokens,  \* lex: tokens, then Parser.tokens
    self_i,  \* Parser.i
    stack,   \* the running parse_object / parse_array calls, innermost last
    value,   \* parse_value: value; what the last finished call returned
    err      \* the exception raised, NoErr while none is

vars == <<json, doc, pc, i, idx, tokens, self_i, stack, value, err>>

(***************************************************************************)
(* Python sequence primitives                                              *)
(***************************************************************************)

\* s[k] for an offset 0 <= k < len(s)
At(s, k) == s[k + 1]

\* how a slice bound is clamped: negative bounds count from the end
SliceBound(x, n) ==
    IF x < 0 THEN (IF x + n < 0 THEN 0 ELSE x + n)
    ELSE IF x > n THEN n ELSE x

\* s[a:b]
PySlice(s, a, b) ==
    LET lo == SliceBound(a, Len(s))
        hi == SliceBound(b, Len(s))
    IN IF lo >= hi THEN <<>> ELSE SubSeq(s, lo + 1, hi)

RECURSIVE ReplaceIn(_, _, _)
\* the replacement in a text: leftmost, non-overlapping
ReplaceIn(s, old, new) ==
    IF Len(s) < 2 THEN s
    ELSE IF SubSeq(s, 1, 2) = old
         THEN new \o ReplaceIn(SubSeq(s, 3, Len(s)), old, new)
         ELSE <<Head(s)>> \o ReplaceIn(Tail(s), old, new)

\* s.replace(old, new) for a two-character old (the receiver s is evaluated
\* once, then scanned)
Replace(s, old, new) == CHOOSE r \in {ReplaceIn(x, old, new) : x \in {s}} : TRUE

RECURSIVE Flatten(_)
\* the concatenation of a sequence of texts
Flatten(ss) == IF ss = <<>> THEN <<>> ELSE Head(ss) \o Flatten(Tail(ss))

(***************************************************************************)
(* Character tables and tokens                                             *)
(***************************************************************************)

HEXDIGITS == {"0", "1", "2", "3", "4", "5", "6", "7", "8", "9",
              "a", "b", "c", "d", "e", "f", "A", "B", "C", "D", "E", "F"}

DIGITS == {"0", "1", "2", "3", "4", "5", "6", "7", "8", "9"}

NUMERIC == DIGITS \cup {".", "e", "E", "+", "-"}

Token(type, start, end) == [type |-> type, start |-> start, end |-> end]

PUNCT == {"{", "}", "[", "]", ":", ","}

PunctType(c) ==
    CASE c = "{" -> "L_CURLY"
      [] c = "}" -> "R_CURLY"
      [] c = "[" -> "L_BRACKET"
      [] c = "]" -> "R_BRACKET"
      [] c = ":" -> "COLON"
      [] c = "," -> "COMMA"

KEYWORDCHARS == {"t", "f", "n"}

KeywordText(c) ==
    CASE c = "t" -> <<"t", "r", "u", "e">>
      [] c = "f" -> <<"f", "a", "l", "s", "e">>
      [] c = "n" -> <<"n", "u", "l", "l">>

KeywordType(c) == IF c = "n" THEN "NULL" ELSE "BOOLEAN"

KeywordError(c) ==
    CASE c = "t" -> "Invalid true value"
      [] c = "f" -> "Invalid false value"
      [] c = "n" -> "Invalid null value"

SIMPLE_ESCAPES == {"\"", "\\", "/", "b", "f", "n", "r", "t"}

(***************************************************************************)
(* Errors.  An exception is its Python type, its message and, when the     *)
(* message was built by Parser._error, the context _error formats into it. *)
(***************************************************************************)

NoErr == [type |-> "", msg |-> "", ctx |-> <<>>]

Raise(type, msg) == [type |-> type, msg |-> msg, ctx |-> <<>>]

\* Parser._error(msg): the two prior tokens, the cursor and the current token
ParserError(msg, toks, pos) ==
    [type |-> "ValueError", msg |-> msg,
     ctx |-> <<[prior_tokens |-> PySlice(toks, pos - 2, pos),
                i |-> pos,
                value |-> At(toks, pos)]>>]

(***************************************************************************)
(* lex                                                                     *)
(***************************************************************************)

\* a keyword test that accepts a text ending inside the keyword
KeywordPrefixMatches(text, k, word) ==
    LET got == PySlice(text, k, k + Len(word))
    IN got = SubSeq(word, 1, Len(got))

\* the keyword test of the t / f / n cases: json[i : i + n] == word
KeywordMatches(text, k, word) == PySlice(text, k, k + Len(word)) = word

\* a number scan that reads no character
NumericRunStart(text, k) == k

RECURSIVE NumericRunEnd(_, _)
\* where `while json[i] in NUMERIC: i += 1` stops reading: the first offset
\* >= k whose character is not numeric, or len(json) when there is none
NumericRunEnd(text, k) ==
    IF k >= Len(text) THEN k
    ELSE IF At(text, k) \in NUMERIC THEN NumericRunEnd(text, k + 1) ELSE k

Fail(e) ==
    /\ pc' = "error"
    /\ err' = e

LexPunct ==
    /\ pc = "lex"
    /\ i < Len(json)
    /\ At(json, i) \in PUNCT
    /\ tokens' = Append(tokens, Token(PunctType(At(json, i)), i, i + 1))
    /\ i' = i + 1
    /\ UNCHANGED <<json, doc, pc, idx, self_i, stack, value, err>>

LexKeyword ==
    /\ pc = "lex"
    /\ i < Len(json)
    /\ At(json, i) \in KEYWORDCHARS
    /\ LET c == At(json, i)
           word == KeywordText(c)
       IN IF KeywordMatches(json, i, word)
          THEN /\ tokens' = Append(tokens, Token(KeywordType(c), i, i + Len(word)))
               /\ i' = i + Len(word)
               /\ UNCHANGED <<pc, err>>
          ELSE /\ Fail(Raise("ValueError", KeywordError(c)))
               /\ UNCHANGED <<tokens, i>>
    /\ UNCHANGED <<json, doc, idx, self_i, stack, value>>

LexStringOpen ==
    /\ pc = "lex"
    /\ i < Len(json)
    /\ At(json, i) = "\""
    /\ idx' = i + 1
    /\ pc' = "scan"
    /\ UNCHANGED <<json, doc, i, tokens, self_i, stack, value, err>>

\* one iteration of the inner `while json:` loop
LexStringScan ==
    /\ pc = "scan"
    /\ IF idx >= Len(json)
       THEN /\ Fail(Raise("IndexError", "string index out of range"))
            /\ UNCHANGED <<i, idx, tokens>>
       ELSE LET v == At(json, idx)
            IN CASE v = "\"" ->
                      /\ idx' = idx + 1
                      /\ tokens' = Append(tokens, Token("STRING", i, idx + 1))
                      /\ i' = idx + 1
                      /\ pc' = "lex"
                      /\ UNCHANGED err
                 [] v = "\\" ->
                      IF idx + 1 >= Len(json)
                      THEN /\ Fail(Raise("IndexError", "string index out of range"))
                           /\ UNCHANGED <<i, idx, tokens>>
                      ELSE LET n == At(json, idx + 1)
                           IN CASE n \in SIMPLE_ESCAPES ->
                                     /\ idx' = idx + 2
                                     /\ UNCHANGED <<i, tokens, pc, err>>
                                [] n = "u" ->
                                     \* unicodes.split("") raises before the
                                     \* hex digits are looked at
                                     /\ Fail(Raise("ValueError", "empty separator"))
                                     /\ UNCHANGED <<i, idx, tokens>>
                                [] OTHER ->
                                     /\ Fail(Raise("ValueError", "Invalid string escaping"))
                                     /\ UNCHANGED <<i, idx, tokens>>
                 [] OTHER ->
                      /\ idx' = idx + 1
                      /\ UNCHANGED <<i, tokens, pc, err>>
    /\ UNCHANGED <<json, doc, self_i, stack, value>>

LexNumber ==
    /\ pc = "lex"
    /\ i < Len(json)
    /\ At(json, i) \in NUMERIC
    /\ LET stop == NumericRunEnd(json, i)
       IN IF stop >= Len(json)
          THEN /\ Fail(Raise("IndexError", "string index out of range"))
               /\ UNCHANGED <<i, tokens>>
          ELSE /\ tokens' = Append(tokens, Token("NUMBER", i, stop))
               /\ i' = stop
               /\ UNCHANGED <<pc, err>>
    /\ UNCHANGED <<json, doc, idx, self_i, stack, value>>

LexSkip ==
    /\ pc = "lex"
    /\ i < Len(json)
    /\ At(json, i) \notin PUNCT \cup KEYWORDCHARS \cup {"\""} \cup NUMERIC
    /\ i' = i + 1
    /\ UNCHANGED <<json, doc, pc, idx, tokens, self_i, stack, value, err>>

\* the loop condition fails: lex returns the tokens to Parser.parse
LexReturn ==
    /\ pc = "lex"
    /\ i >= Len(json)
    /\ pc' = "parse"
    /\ UNCHANGED <<json, doc, i, idx, tokens, self_i, stack, value, err>>

Lex == LexPunct \/ LexKeyword \/ LexStringOpen \/ LexStringScan
       \/ LexNumber \/ LexSkip \/ LexReturn

(***************************************************************************)
(* Values.  One record shape for every variant of Value: k is the variant, *)
(* s the text of a scalar, keys the keys of an object in insertion order,  *)
(* vals the members of an object or the elements of an array.              *)
(***************************************************************************)

V(k, s, keys, vals) == [k |-> k, s |-> s, keys |-> keys, vals |-> vals]

None == V("null", <<>>, <<>>, <<>>)

NoDoc == V("none", <<>>, <<>>, <<>>)

(***************************************************************************)
(* Parser                                                                  *)
(***************************************************************************)

\* self.i before parse() assigns it: the attribute does not exist
Unset == -1

\* raise ValueError(self._error(msg)): _error reads self.i and
\* self.tokens[self.i] before the ValueError is built
Error(msg, toks, pos) ==
    IF pos = Unset
    THEN Raise("AttributeError", "'Parser' object has no attribute 'i'")
    ELSE IF pos >= Len(toks)
         THEN Raise("IndexError", "list index out of range")
         ELSE ParserError(msg, toks, pos)

get_string(text, t) == PySlice(text, t.start, t.end)

normalized_string(text, t) ==
    LET s0 == get_string(text, t)
        s1 == Replace(s0, <<"\\", "\\">>, <<"\\">>)
        s2 == Replace(s1, <<"\\", "\"">>, <<"\"">>)
        s3 == Replace(s2, <<"\\", "/">>, <<"/">>)
        s4 == Replace(s3, <<"\\", "b">>, <<"<BS>">>)
        s5 == Replace(s4, <<"\\", "f">>, <<"<FF>">>)
        s6 == Replace(s5, <<"\\", "n">>, <<"<LF>">>)
        s7 == Replace(s6, <<"\\", "r">>, <<"<CR>">>)
        s8 == Replace(s7, <<"\\", "t">>, <<"<TAB>">>)
    IN Replace(s8, <<"\\", "u">>, <<"u">>)

\* the value of a decimal digit
DigitValue(c) == CHOOSE n \in 0..9 : <<"0", "1", "2", "3", "4", "5", "6", "7", "8", "9">>[n + 1] = c

RECURSIVE DigitsValue(_)
\* the number a sequence of digits writes (0 for the empty one)
DigitsValue(d) ==
    IF d = <<>> THEN 0
    ELSE DigitsValue(SubSeq(d, 1, Len(d) - 1)) * 10 + DigitValue(d[Len(d)])

\* the first position of s that holds one of the characters cs, Len(s) + 1
\* when none does
Find(s, cs) ==
    IF \E p \in 1..Len(s) : s[p] \in cs
    THEN CHOOSE p \in 1..Len(s) : s[p] \in cs /\ \A q \in 1..(p - 1) : s[q] \notin cs
    ELSE Len(s) + 1

IsDigit(c) == c \in DIGITS

RECURSIVE Pow10(_)
Pow10(n) == IF n = 0 THEN 1 ELSE 10 * Pow10(n - 1)

RECURSIVE NumDigits(_)
\* the number of decimal digits of n >= 1
NumDigits(n) == IF n < 10 THEN 1 ELSE 1 + NumDigits(n \div 10)

RECURSIVE Normalized(_, _)
\* a float is <<m, e>>, the number m * 10^e with m not a multiple of 10, or
\* <<0, 0>>; a magnitude of 10^309 or more is float's infinity, <<1, 309>> or
\* <<-1, 309>>.  (The numbers the texts of the model write are either small
\* enough for a double to tell them apart, or 10^309 and more.)
Normalized(m, e) ==
    IF m = 0 THEN <<0, 0>>
    ELSE IF m % 10 = 0 THEN Normalized(m \div 10, e + 1)
    ELSE IF NumDigits(IF m < 0 THEN -m ELSE m) + e > 309
         THEN <<IF m < 0 THEN -1 ELSE 1, 309>>
         ELSE <<m, e>>

\* a text without its leading sign
Unsigned(s) == IF s # <<>> /\ s[1] \in {"+", "-"} THEN Tail(s) ELSE s

AllDigits(s) == \A p \in 1..Len(s) : s[p] \in DIGITS

\* the text before the first e or E, and the text behind it
MantissaText(s) == SubSeq(s, 1, Find(s, {"e", "E"}) - 1)

ExponentText(s) == SubSeq(s, Find(s, {"e", "E"}) + 1, Len(s))

\* the digits of a mantissa behind its point
Fraction(m) == SubSeq(m, Find(m, {"."}) + 1, Len(m))

\* float(string) accepts the text: [sign] digits [. digits] [e [sign] digits]
\* with a digit in the mantissa (the span holds NUMERIC characters only)
FloatAccepts(s) ==
    LET body == Unsigned(MantissaText(s))
        whole == SubSeq(body, 1, Find(body, {"."}) - 1)
    IN /\ AllDigits(whole)
       /\ AllDigits(Fraction(body))
       /\ Len(whole) + Len(Fraction(body)) >= 1
       /\ Find(s, {"e", "E"}) <= Len(s) =>
             /\ Unsigned(ExponentText(s)) # <<>>
             /\ AllDigits(Unsigned(ExponentText(s)))

\* float(string) for a text float accepts: the digits of the mantissa, the
\* number of them behind the point, and the exponent
float(s) ==
    LET m == DigitsValue(SelectSeq(MantissaText(s), IsDigit))
        x == DigitsValue(Unsigned(ExponentText(s)))
    IN Normalized(IF s[1] = "-" THEN -m ELSE m,
                  (IF ExponentText(s) # <<>> /\ ExponentText(s)[1] = "-" THEN -x ELSE x)
                      - Len(Fraction(MantissaText(s))))

\* the float is an infinity
IsInf(f) == f[2] >= 309

\* rounding towards minus infinity
floor(f) ==
    IF f[2] >= 0 THEN f[1] * Pow10(f[2]) ELSE f[1] \div Pow10(-f[2])

\* int(as_float) for a finite float: rounding towards zero
int(f) ==
    IF f[2] >= 0 THEN f[1] * Pow10(f[2])
    ELSE IF f[1] >= 0 THEN f[1] \div Pow10(-f[2])
    ELSE -((-f[1]) \div Pow10(-f[2]))

\* "." in string
HasPoint(s) == \E p \in 1..Len(s) : s[p] = "."

\* value = as_float if "." in string else int(as_float): s holds the float
\* <<m, e>> or the integer <<n>>
Number(s) ==
    IF HasPoint(s) THEN V("float", float(s), <<>>, <<>>)
    ELSE V("int", <<int(float(s))>>, <<>>, <<>>)

Frame(fn) == [fn |-> fn, keys |-> <<>>, vals |-> <<>>, known_keys |-> {}, key |-> <<>>]

Top == stack[Len(stack)]

Push(f) == Append(stack, f)

Pop == SubSeq(stack, 1, Len(stack) - 1)

SetTop(f) == [stack EXCEPT ![Len(stack)] = f]

\* a result that is a list for either kind of frame
ListResult(f) == V("arr", <<>>, <<>>, f.vals)

\* what parse_object / parse_array return for a frame
FrameResult(f) ==
    IF f.fn = "object" THEN V("obj", <<>>, f.keys, f.vals)
    ELSE V("arr", <<>>, <<>>, f.vals)

\* a key test that never finds the key
NeverDuplicate(key, known_keys) == FALSE

\* key in known_keys
IsDuplicate(key, known_keys) == key \in known_keys

\* result[key] = value on a dict kept as keys and values in insertion order
DictSet(f, key, v) ==
    IF \E p \in 1..Len(f.keys) : f.keys[p] = key
    THEN LET p == CHOOSE q \in 1..Len(f.keys) : f.keys[q] = key
         IN [f EXCEPT !.vals[p] = v]
    ELSE [f EXCEPT !.keys = Append(f.keys, key), !.vals = Append(f.vals, v)]

\* the running parse_object / parse_array returns: to parse() when it is the
\* top-level container, else to the parse_value call that entered it
Return(pos) ==
    /\ self_i' = pos
    /\ stack' = Pop
    /\ value' = FrameResult(Top)
    /\ pc' = IF Len(stack) = 1 THEN "done" ELSE "comma"
    /\ UNCHANGED err

\* Parser.parse after lex returned
ParseEntry ==
    /\ pc = "parse"
    /\ IF Len(tokens) < 2
       THEN /\ Fail(Error("Too short to be valid", tokens, self_i))
            /\ UNCHANGED <<self_i, stack>>
       ELSE LET type == At(tokens, 0).type
            IN CASE type = "L_CURLY" ->
                      /\ self_i' = 1
                      /\ stack' = Push(Frame("object"))
                      /\ pc' = "object"
                      /\ UNCHANGED err
                 [] type = "L_BRACKET" ->
                      /\ self_i' = 1
                      /\ stack' = Push(Frame("array"))
                      /\ pc' = "array"
                      /\ UNCHANGED err
                 [] OTHER ->
                      /\ self_i' = 1
                      /\ Fail(Error("Invalid input", tokens, 1))
                      /\ UNCHANGED stack
    /\ UNCHANGED <<json, doc, i, idx, tokens, value>>

\* one iteration of the parse_object loop, up to its parse_value call
ObjectStep ==
    /\ pc = "object"
    /\ IF self_i >= Len(tokens)
       THEN Return(self_i)
       ELSE LET t == At(tokens, self_i)
                key == normalized_string(json, t)
            IN CASE t.type = "R_CURLY" -> Return(self_i + 1)
                 [] t.type = "STRING" ->
                      IF key = <<>>
                      THEN /\ Fail(Raise("AssertionError", ""))
                           /\ UNCHANGED <<self_i, stack, value>>
                      ELSE IF IsDuplicate(key, Top.known_keys)
                      THEN /\ Fail(Error("Duplicate key found", tokens, self_i))
                           /\ UNCHANGED <<self_i, stack, value>>
                      ELSE /\ stack' = SetTop([Top EXCEPT !.known_keys = @ \cup {key},
                                                          !.key = key])
                           /\ UNCHANGED value
                           /\ IF self_i + 1 >= Len(tokens)
                              THEN /\ self_i' = self_i + 1
                                   /\ Fail(Raise("IndexError", "list index out of range"))
                              ELSE IF At(tokens, self_i + 1).type # "COLON"
                              THEN /\ self_i' = self_i + 1
                                   /\ Fail(Error("Expected colon", tokens, self_i + 1))
                              ELSE /\ self_i' = self_i + 2
                                   /\ pc' = "value"
                                   /\ UNCHANGED err
                 [] OTHER ->
                      /\ Fail(Error("Invalid object content", tokens, self_i))
                      /\ UNCHANGED <<self_i, stack, value>>
    /\ UNCHANGED <<json, doc, i, idx, tokens>>

\* one iteration of the parse_array loop, up to its parse_value call
ArrayStep ==
    /\ pc = "array"
    /\ IF self_i >= Len(tokens)
       THEN Return(self_i)
       ELSE IF At(tokens, self_i).type = "R_BRACKET"
       THEN Return(self_i + 1)
       ELSE /\ pc' = "value"
            /\ UNCHANGED <<self_i, stack, value, err>>
    /\ UNCHANGED <<json, doc, i, idx, tokens>>

\* parse_value up to the end of its match statement
ValueStep ==
    /\ pc = "value"
    /\ IF self_i >= Len(tokens)
       THEN /\ Fail(Raise("IndexError", "list index out of range"))
            /\ UNCHANGED <<self_i, stack, value>>
       ELSE LET t == At(tokens, self_i)
                string == get_string(json, t)
            IN CASE t.type = "STRING" ->
                      /\ self_i' = self_i + 1
                      /\ value' = V("str", normalized_string(json, t), <<>>, <<>>)
                      /\ pc' = "comma"
                      /\ UNCHANGED <<stack, err>>
                 [] t.type = "NUMBER" ->
                      /\ self_i' = self_i + 1
                      /\ \E number \in {string} :
                            IF ~FloatAccepts(number)
                            THEN /\ Fail(Raise("ValueError", "could not convert string to float"))
                                 /\ UNCHANGED <<stack, value>>
                            ELSE IF ~HasPoint(number) /\ IsInf(float(number))
                            THEN /\ Fail(Raise("OverflowError",
                                               "cannot convert float infinity to integer"))
                                 /\ UNCHANGED <<stack, value>>
                            ELSE /\ value' = Number(number)
                                 /\ pc' = "comma"
                                 /\ UNCHANGED <<stack, err>>
                 [] t.type = "L_CURLY" ->
                      /\ self_i' = self_i + 1
                      /\ stack' = Push(Frame("object"))
                      /\ pc' = "object"
                      /\ UNCHANGED <<value, err>>
                 [] t.type = "L_BRACKET" ->
                      /\ self_i' = self_i + 1
                      /\ stack' = Push(Frame("array"))
                      /\ pc' = "array"
                      /\ UNCHANGED <<value, err>>
                 [] t.type = "BOOLEAN" ->
                      /\ self_i' = self_i + 1
                      /\ value' = V(IF string = <<"t", "r", "u", "e">> THEN "true" ELSE "false",
                                    <<>>, <<>>, <<>>)
                      /\ pc' = "comma"
                      /\ UNCHANGED <<stack, err>>
                 [] t.type = "NULL" ->
                      /\ self_i' = self_i + 1
                      /\ value' = None
                      /\ pc' = "comma"
                      /\ UNCHANGED <<stack, err>>
                 [] OTHER ->
                      /\ Fail(Error("Unknown tokentype", tokens, self_i))
                      /\ UNCHANGED <<self_i, stack, value>>
    /\ UNCHANGED <<json, doc, i, idx, tokens>>

\* the end of parse_value (the comma test) and the caller's use of the value:
\* result[key] = value in parse_object, result.append(value) in parse_array
ValueReturn ==
    /\ pc = "comma"
    /\ IF self_i >= Len(tokens)
       THEN /\ Fail(Raise("IndexError", "list index out of range"))
            /\ UNCHANGED <<self_i, stack>>
       ELSE /\ self_i' = IF At(tokens, self_i).type = "COMMA" THEN self_i + 1 ELSE self_i
            /\ stack' = SetTop(IF Top.fn = "object"
                               THEN DictSet(Top, Top.key, value)
                               ELSE [Top EXCEPT !.vals = Append(@, value)])
            /\ pc' = Top.fn
            /\ UNCHANGED err
    /\ UNCHANGED <<json, doc, i, idx, tokens, value>>

Parse == ParseEntry \/ ObjectStep \/ ArrayStep \/ ValueStep \/ ValueReturn

(***************************************************************************)
(* The texts handed to loads                                               *)
(***************************************************************************)

MaxLexemes == 4
MaxNodes == 4
MaxPieces == 4
MaxChars == 3
MaxLiveLexemes == 3
MaxLiveNodes == 3

QA == <<"\"", "a", "\"">>
QB == <<"\"", "b", "\"">>
TRUE_TEXT == <<"t", "r", "u", "e">>
NULL_TEXT == <<"n", "u", "l", "l">>

\* the lexemes short texts are built from
LEXEMES == {<<"{">>, <<"}">>, <<"[">>, <<"]">>, <<":">>, <<",">>,
            QA, <<"1">>, TRUE_TEXT, NULL_TEXT, <<" ">>}

\* JSON documents as trees: a scalar keeps its source text in s, an object
\* its keys' source texts in keys
SCALARS == {V("int", <<"1">>, <<>>, <<>>)}

KEYS == {QA, QB}

RECURSIVE TreesOfSize(_), Forests(_), Members(_)
\* the documents of exactly n nodes
TreesOfSize(n) ==
    (IF n = 1 THEN SCALARS ELSE {})
    \cup {V("arr", <<>>, <<>>, f) : f \in Forests(n - 1)}
    \cup {V("obj", <<>>, m.keys, m.vals) : m \in Members(n - 1)}

\* the element lists of n nodes in all
Forests(n) ==
    IF n = 0 THEN {<<>>}
    ELSE UNION {{<<t>> \o f : t \in TreesOfSize(k), f \in Forests(n - k)} : k \in 1..n}

\* the member lists of n nodes in all (a key may repeat)
Members(n) ==
    IF n = 0 THEN {[keys |-> <<>>, vals |-> <<>>]}
    ELSE UNION {{[keys |-> <<key>> \o m.keys, vals |-> <<t>> \o m.vals] :
                     key \in KEYS, t \in TreesOfSize(k), m \in Members(n - k)} :
                k \in 1..n}

IsContainer(t) == t.k \in {"arr", "obj"}

RECURSIVE Render(_), RenderItems(_, _)
\* the JSON text of a document
Render(t) ==
    CASE t.k = "arr" -> <<"[">> \o RenderItems(t, 1) \o <<"]">>
      [] t.k = "obj" -> <<"{">> \o RenderItems(t, 1) \o <<"}">>
      [] OTHER -> t.s

RenderItems(t, p) ==
    IF p > Len(t.vals) THEN <<>>
    ELSE (IF p > 1 THEN <<",">> ELSE <<>>)
         \o (IF t.k = "obj" THEN t.keys[p] \o <<":">> ELSE <<>>)
         \o Render(t.vals[p])
         \o RenderItems(t, p + 1)

\* the pieces the lexer's texts are built from
PIECES == {<<"{">>, <<"]">>, <<",">>, <<"\"">>, <<"\\">>, <<"\\", "u", "1", "1", "1">>,
           <<"n">>, <<"t">>, <<"1">>, <<"x">>, TRUE_TEXT,
           <<"f", "a", "l", "s", "e">>, NULL_TEXT}

\* the parts number texts are built from: sign, integer part, fraction, exponent
SIGNS == {<<>>, <<"-">>, <<"+">>}

INTPARTS == {<<>>, <<"0">>, <<"1">>, <<"1", "5">>, <<"1", "5", "0">>}

FRACPARTS == {<<>>, <<".">>, <<".", "5">>, <<".", "0", "5">>, <<".", "9", "5">>}

EXPPARTS == {<<>>, <<"e", "2">>, <<"E", "2">>, <<"e", "-", "1">>, <<"e", "+", "1">>,
             <<"e">>, <<"e", "9", "9", "9">>}

\* the characters string literals are built from
STRINGCHARS == {"\\", "\"", "n", "t", "a"}

(***************************************************************************)
(* Specifications                                                          *)
(***************************************************************************)

Start(text, d) ==
    /\ json = text
    /\ doc = d
    /\ pc = "lex"
    /\ i = 0
    /\ idx = 0
    /\ tokens = <<>>
    /\ self_i = Unset
    /\ stack = <<>>
    /\ value = None
    /\ err = NoErr

\* loads(json) on the text of a document
StartDoc(d) == Start(Render(d), d)

\* loads(json) on every text of at most MaxLexemes lexemes and on the text of
\* every document of at most MaxNodes nodes whose top level is an array or an
\* object: the empty ones, and the ones made of a first element or member of
\* k nodes and the rest; on the arrays of one number text; and on the arrays
\* of one string literal of at most MaxChars characters
Init ==
    \/ \E n \in 0..MaxLexemes : \E ls \in [1..n -> LEXEMES] : Start(Flatten(ls), NoDoc)
    \/ \E d \in {t \in TreesOfSize(1) : IsContainer(t)} : StartDoc(d)
    \/ \E n \in 2..MaxNodes : \E k \in 1..(n - 1) :
          \E t \in TreesOfSize(k) : \E f \in Forests(n - 1 - k) :
             StartDoc(V("arr", <<>>, <<>>, <<t>> \o f))
    \/ \E n \in 2..MaxNodes : \E k \in 1..(n - 1) :
          \E key \in KEYS : \E t \in TreesOfSize(k) : \E m \in Members(n - 1 - k) :
             StartDoc(V("obj", <<>>, <<key>> \o m.keys, <<t>> \o m.vals))
    \/ \E sg \in SIGNS : \E ip \in INTPARTS : \E fp \in FRACPARTS : \E ex \in EXPPARTS :
          Start(<<"[">> \o sg \o ip \o fp \o ex \o <<"]">>, NoDoc)
    \/ \E n \in 0..MaxChars : \E cs \in [1..n -> STRINGCHARS] :
          Start(<<"[", "\"">> \o cs \o <<"\"", "]">>, NoDoc)

Next == Lex \/ Parse

Spec == Init /\ [][Next]_vars

\* loads(json) on every text of at most MaxLiveLexemes lexemes, on the text of
\* every document of at most MaxLiveNodes nodes and on the arrays of one
\* number text
InitLive ==
    \/ \E n \in 0..MaxLiveLexemes : \E ls \in [1..n -> LEXEMES] : Start(Flatten(ls), NoDoc)
    \/ \E n \in 1..MaxLiveNodes : \E d \in {t \in TreesOfSize(n) : IsContainer(t)} : StartDoc(d)
    \/ \E sg \in SIGNS : \E ip \in INTPARTS : \E fp \in FRACPARTS : \E ex \in EXPPARTS :
          Start(<<"[">> \o sg \o ip \o fp \o ex \o <<"]">>, NoDoc)

\* a call runs to its end: the interpreter executes statement after statement
\* for as long as there is one to execute
SpecLive == InitLive /\ [][Next]_vars /\ WF_vars(Next)

\* lex(json) alone, on every text of at most MaxPieces pieces
InitLex == \E n \in 0..MaxPieces : \E ps \in [1..n -> PIECES] : Start(Flatten(ps), NoDoc)

SpecLex == InitLex /\ [][Lex]_vars

(***************************************************************************)
(* Properties                                                              *)
(***************************************************************************)

Terminated == pc \in {"done", "error"}

\* the length of a token's span
SpanLen(t) == t.end - t.start

\* the closing token type of a container value
Closer(k) == IF k = "obj" THEN "R_CURLY" ELSE "R_BRACKET"

RECURSIVE NoDuplicateKeys(_)
\* no object of the document repeats a key
NoDuplicateKeys(t) ==
    /\ \A p, q \in 1..Len(t.keys) : p # q => t.keys[p] # t.keys[q]
    /\ \A p \in 1..Len(t.vals) : NoDuplicateKeys(t.vals[p])

\* the string a document's key denotes: the text between its quotes (the
\* keys of KEYS hold no escapes)
DocKeyText(k) == PySlice(k, 1, Len(k) - 1)

RECURSIVE ShapeOfDoc(_)
\* the structure of a document: variants, keys and order, scalar text erased
ShapeOfDoc(t) ==
    V(t.k, <<>>, [p \in 1..Len(t.keys) |-> DocKeyText(t.keys[p])],
      [p \in 1..Len(t.vals) |-> ShapeOfDoc(t.vals[p])])

RECURSIVE ShapeOfValue(_)
\* the structure of a decoded value
ShapeOfValue(v) ==
    V(v.k, <<>>, v.keys, [p \in 1..Len(v.vals) |-> ShapeOfValue(v.vals[p])])

\* C1: for every valid JSON text whose top level is an object or an array and
\* in which no object repeats a key, loads returns a value (it does not fail)
\* with the same nesting, the same object keys and the elements in source order.
C1_ValidDocumentDecodes ==
    (doc # NoDoc /\ NoDuplicateKeys(doc) /\ Terminated)
        => (pc = "done" /\ ShapeOfValue(value) = ShapeOfDoc(doc))

\* C2: parse_object and parse_array end only by consuming the container's
\* closing token or by raising: a text whose tokens run out before the
\* top-level container is closed, a trailing comma included, returns no value;
\* whenever loads returns, the last token consumed closes the returned container.
C2_ReturnsOnlyAtClosingToken ==
    pc = "done" => (self_i >= 1 /\ At(tokens, self_i - 1).type = Closer(value.k))

\* C3: whenever loads returns a value the parser cursor equals the number of
\* tokens: a token after the top-level closing token makes the call fail.
C3_ConsumesAllTokens == pc = "done" => self_i = Len(tokens)

\* the string the parser makes of a key's source text
DecodedKey(k) == normalized_string(k, Token("STRING", 0, Len(k)))

RECURSIVE HasDuplicateKey(_)
\* some object of the document has two keys that decode to the same string
HasDuplicateKey(t) ==
    \/ \E p, q \in 1..Len(t.keys) :
          p # q /\ DecodedKey(t.keys[p]) = DecodedKey(t.keys[q])
    \/ \E p \in 1..Len(t.vals) : HasDuplicateKey(t.vals[p])

RECURSIVE KeysOfDoc(_)
\* a document's objects and arrays with the decoded keys of each object
KeysOfDoc(t) ==
    V(IF IsContainer(t) THEN t.k ELSE "scalar", <<>>,
      [p \in 1..Len(t.keys) |-> DecodedKey(t.keys[p])],
      [p \in 1..Len(t.vals) |-> KeysOfDoc(t.vals[p])])

RECURSIVE KeysOfValue(_)
KeysOfValue(v) ==
    V(IF IsContainer(v) THEN v.k ELSE "scalar", <<>>, v.keys,
      [p \in 1..Len(v.vals) |-> KeysOfValue(v.vals[p])])

\* the keys an object frame has read: the bound ones and the one whose value
\* is being parsed
KeysRead(f) ==
    {f.keys[p] : p \in 1..Len(f.keys)} \cup (IF f.key = <<>> THEN {} ELSE {f.key})

DuplicateKeyRaised == pc = "error" /\ err.msg = "Duplicate key found"

\* C4: key uniqueness is enforced per object.  "Duplicate key found" is raised
\* only with the cursor on a key that this same object has already read, before
\* its value is parsed; known_keys holds the keys of the running object alone;
\* a document some object of which repeats a key fails with "Duplicate key
\* found", and a document with pairwise distinct keys in every object (the same
\* key in nested objects included) decodes with every key present.
C4_DuplicateKeysPerObject ==
    /\ DuplicateKeyRaised =>
          /\ stack # <<>> /\ Top.fn = "object"
          /\ self_i < Len(tokens) /\ At(tokens, self_i).type = "STRING"
          /\ err.ctx[1].i = self_i
          /\ normalized_string(json, At(tokens, self_i)) \in KeysRead(Top)
    /\ \A p \in 1..Len(stack) :
          stack[p].fn = "object" => stack[p].known_keys = KeysRead(stack[p])
    /\ (doc # NoDoc /\ Terminated) =>
          IF HasDuplicateKey(doc)
          THEN DuplicateKeyRaised
          ELSE pc = "done" /\ KeysOfValue(value) = KeysOfDoc(doc)

\* a repeated key of a document's object has been refused
C4_Witness ==
    /\ DuplicateKeyRaised
    /\ doc # NoDoc
    /\ Len(Top.keys) >= 1

\* C5: the string made of a String token, as a value and as an object key,
\* does not hold the literal's delimiting quotes: it is at least two
\* characters shorter than the token's span.
C5_DelimitersStripped ==
    /\ (pc = "comma" /\ value.k = "str")
          => Len(value.s) <= SpanLen(At(tokens, self_i - 1)) - 2
    /\ (pc = "value" /\ Top.fn = "object")
          => Len(Top.key) <= SpanLen(At(tokens, self_i - 2)) - 2

\* the string scan stands on a backslash followed by u and four hex digits
AtUnicodeEscape ==
    /\ pc = "scan"
    /\ idx + 5 < Len(json)
    /\ At(json, idx) = "\\"
    /\ At(json, idx + 1) = "u"
    /\ \A k \in 2..5 : At(json, idx + k) \in HEXDIGITS

\* C6: in a string literal, a backslash followed by u and exactly four hex
\* digits is accepted by the lexer: the inner cursor advances by 6 characters
\* and no error is raised.
C6_UnicodeEscapeAccepted ==
    [][AtUnicodeEscape => (pc' = "scan" /\ idx' = idx + 6)]_vars

\* lex has returned (no lexer error leaves i at the end of the text)
Lexed == pc \notin {"lex", "scan", "parse"} /\ i >= Len(json)

\* C7: a text that lexes to fewer than 2 tokens fails with "Too short to be
\* valid"; a text of 2 or more tokens whose first token is neither a left
\* brace nor a left bracket fails with "Invalid input".
C7_EntryRule ==
    Lexed =>
        /\ Len(tokens) < 2 =>
              pc = "error" /\ err.type = "ValueError" /\ err.msg = "Too short to be valid"
        /\ (Len(tokens) >= 2 /\ At(tokens, 0).type \notin {"L_CURLY", "L_BRACKET"}) =>
              pc = "error" /\ err.type = "ValueError" /\ err.msg = "Invalid input"

\* C8: every token lex has appended satisfies 0 <= start <= end <= len(json),
\* and the tokens are in source order without overlap.
C8_TokenSpans ==
    \A p \in 1..Len(tokens) :
        /\ 0 <= tokens[p].start
        /\ tokens[p].start <= tokens[p].end
        /\ tokens[p].end <= Len(json)
        /\ p < Len(tokens) => tokens[p].end <= tokens[p + 1].start

\* lex returned a string, a number and a keyword token
C8_Witness ==
    /\ pc = "parse"
    /\ \E p, q, r \in 1..Len(tokens) :
          /\ tokens[p].type = "STRING"
          /\ tokens[q].type = "NUMBER"
          /\ tokens[r].type \in {"BOOLEAN", "NULL"}

\* C9: every maximal run of numeric characters that starts outside a string
\* yields exactly one Number token spanning the run, also when the run ends
\* at the last character of the text (lex does not fail on it).
C9_NumberRunYieldsToken ==
    [][(pc = "lex" /\ i < Len(json) /\ At(json, i) \in NUMERIC) =>
          /\ pc' = "lex"
          /\ tokens' = Append(tokens, Token("NUMBER", i, NumericRunEnd(json, i)))
          /\ i' = NumericRunEnd(json, i)]_vars

\* the tokens that precede the cursor: two, or the single one at index 1
PrecedingTokens(toks, pos) ==
    IF pos >= 2 THEN <<At(toks, pos - 2), At(toks, pos - 1)>>
    ELSE IF pos = 1 THEN <<At(toks, 0)>> ELSE <<>>

\* C10: every error built by Parser._error carries the tokens that precede
\* the failure point (two, or the single one at cursor 1), the cursor and the
\* token at the failure point.
C10_ErrorContext ==
    (pc = "error" /\ err.ctx # <<>>) =>
        /\ err.ctx[1].i = self_i
        /\ err.ctx[1].value = At(tokens, self_i)
        /\ err.ctx[1].prior_tokens = PrecedingTokens(tokens, self_i)

\* parse_value has just turned a Number token into a value
NumberYielded == pc = "comma" /\ self_i >= 1 /\ At(tokens, self_i - 1).type = "NUMBER"

\* the span of that token
NumberSpan == get_string(json, At(tokens, self_i - 1))

Abs(n) == IF n < 0 THEN -n ELSE n

\* n is the float f = <<m, e>> with its fraction dropped: the integer of f's
\* sign with |n| <= |f| < |n| + 1
IsTruncationOf(n, f) ==
    IF f[2] >= 0 THEN n = f[1] * Pow10(f[2])
    ELSE /\ Abs(n) * Pow10(-f[2]) <= Abs(f[1])
         /\ Abs(f[1]) < (Abs(n) + 1) * Pow10(-f[2])
         /\ n # 0 => (n < 0 <=> f[1] < 0)

\* C11: a Number token whose span contains "." yields a floating-point value
\* (the float of the span); one whose span contains no "." yields an integer,
\* the float of the span truncated, also when the span holds an exponent:
\* 1.5 yields the float 1.5, 150 the integer 150, 1e2 the integer 100.
C11_NumberClassification ==
    NumberYielded =>
        /\ IF HasPoint(NumberSpan)
           THEN value.k = "float" /\ value.s = float(NumberSpan)
           ELSE value.k = "int" /\ IsTruncationOf(value.s[1], float(NumberSpan))
        /\ NumberSpan = <<"1", ".", "5">> => value = V("float", <<15, -1>>, <<>>, <<>>)
        /\ NumberSpan = <<"1", "5", "0">> => value = V("int", <<150>>, <<>>, <<>>)
        /\ NumberSpan = <<"1", "e", "2">> => value = V("int", <<100>>, <<>>, <<>>)

\* -15e-1 (no ".", an exponent, a fraction to drop) has yielded the integer -1
C11_Witness ==
    /\ NumberYielded
    /\ NumberSpan = <<"-", "1", "5", "e", "-", "1">>
    /\ value = V("int", <<-1>>, <<>>, <<>>)

\* the cursors' moves in one step
CursorsAdvance ==
    \* an iteration of the lex loop that scans no string
    /\ (pc = "lex" /\ pc' = "lex") => i' > i
    \* an iteration that meets a quote starts the string scan behind it
    /\ (pc = "lex" /\ pc' = "scan") => (i' = i /\ idx' > i /\ idx' > idx)
    \* an iteration of the string scan
    /\ (pc = "scan" /\ pc' = "scan") => (i' = i /\ idx' > idx)
    \* the closing quote ends the scan and the iteration of the lex loop
    /\ (pc = "scan" /\ pc' = "lex") => (idx' > idx /\ i' = idx' /\ i' > i)
    /\ pc \in {"lex", "scan"} => (i' >= i /\ idx' >= idx)
    \* the token cursor never moves back
    /\ self_i' >= self_i
    \* parse_value's dispatch consumes the current token or raises
    /\ (pc = "value" /\ pc' # "error") => self_i' > self_i
    \* an iteration of the parse_object loop
    /\ (pc = "object" /\ self_i < Len(tokens) /\ pc' # "error") => self_i' > self_i
    \* an iteration of the parse_array loop: the closer, or a parse_value call
    /\ (pc = "array" /\ self_i < Len(tokens) /\ pc' # "error")
          => (self_i' > self_i \/ (pc' = "value" /\ self_i' = self_i))

\* C12: both cursors only move forward (each iteration of the lex loop and of
\* the string scan increases the character cursor or raises, parse_value
\* consumes at least one token or raises, each iteration of the parse_object
\* and parse_array loops advances the token cursor or raises), and every call
\* of loads eventually returns a value or raises.
C12_ForwardAndTerminates == [][CursorsAdvance]_vars /\ <>Terminated

\* a nested document with a string and a number has been decoded to the end
C12_Witness ==
    /\ pc = "done"
    /\ Len(stack) = 0
    /\ value.k = "obj"
    /\ \E p \in 1..Len(value.vals) : value.vals[p].k = "arr" /\ Len(value.vals[p].vals) >= 1

\* the character a two-character escape stands for
Unescaped(c) ==
    CASE c = "\"" -> "\""
      [] c = "\\" -> "\\"
      [] c = "/" -> "/"
      [] c = "b" -> "<BS>"
      [] c = "f" -> "<FF>"
      [] c = "n" -> "<LF>"
      [] c = "r" -> "<CR>"
      [] c = "t" -> "<TAB>"

RECURSIVE DecodedAsScanned(_)
\* a literal read as the string scan reads it, left to right: a backslash and
\* the character behind it are one escape, any other character is itself
DecodedAsScanned(s) ==
    IF s = <<>> THEN <<>>
    ELSE IF s[1] = "\\" /\ Len(s) >= 2
         THEN <<Unescaped(s[2])>> \o DecodedAsScanned(SubSeq(s, 3, Len(s)))
         ELSE <<s[1]>> \o DecodedAsScanned(Tail(s))

\* C13: the escape decoder agrees with the lexer's string scan: in the string
\* made of a String token (a value or an object key) each two-character
\* escape the scan consumed as a unit is replaced by its single character and
\* every other character of the literal is unchanged; an escaped backslash
\* followed by n decodes to a backslash and an n.
C13_DecoderAgreesWithScan ==
    /\ (pc = "comma" /\ value.k = "str")
          => value.s = DecodedAsScanned(get_string(json, At(tokens, self_i - 1)))
    /\ (pc = "value" /\ Top.fn = "object")
          => Top.key = DecodedAsScanned(get_string(json, At(tokens, self_i - 2)))

\* the token under the parser's cursor is of one of the types
CursorOn(types) == self_i >= 0 /\ self_i < Len(tokens) /\ At(tokens, self_i).type \in types

\* the step raises ValueError with the message
RaisesValueError(msg) == pc' = "error" /\ err'.type = "ValueError" /\ err'.msg = msg

\* what a step does with closers and separators
ClosersMatch ==
    \* a right bracket at the key position of an object
    /\ (pc = "object" /\ CursorOn({"R_BRACKET"})) => RaisesValueError("Invalid object content")
    \* a right brace at the element position of an array is handed to parse_value
    /\ (pc = "array" /\ CursorOn({"R_CURLY"})) => (pc' = "value" /\ UNCHANGED <<self_i, stack>>)
    \* a closer or a separator where parse_value expects a value
    /\ (pc = "value" /\ CursorOn({"R_CURLY", "R_BRACKET", "COLON", "COMMA"}))
          => RaisesValueError("Unknown tokentype")
    \* a container that returns on a token returns on its own closer, as the
    \* value of its own kind
    /\ Len(stack') < Len(stack) =>
          /\ value'.k = (IF Top.fn = "object" THEN "obj" ELSE "arr")
          /\ self_i' # self_i => (self_i' = self_i + 1 /\ CursorOn({Closer(value'.k)}))
          /\ self_i' = self_i => ~CursorOn({"R_CURLY", "R_BRACKET"})

\* C14: containers are closed only by their matching closer.  A right bracket
\* met at the key position of an object fails with "Invalid object content"; a
\* right brace met at the element position of an array, and a right brace,
\* right bracket, colon or comma met where parse_value expects a value, fail
\* with "Unknown tokentype"; no array returns on a right brace and no object
\* on a right bracket.
C14_MatchingCloser == [][ClosersMatch]_vars

\* a right brace has been refused at the element position of a nested array
C14_Witness ==
    /\ pc = "error"
    /\ err.msg = "Unknown tokentype"
    /\ Len(stack) >= 2
    /\ Top.fn = "array"
    /\ CursorOn({"R_CURLY"})

====
